---------------------------- MODULE Spec2Model ----------------------------
(***************************************************************************)
(* A model of dllwalk: the PE import parser (src/src/pe), the loader       *)
(* search order (src/src/search_path.rs), the memoizing DllDatabase        *)
(* (src/src/dll_database.rs) and the walk over the import closure          *)
(* (src/src/main.rs).                                                      *)
(*                                                                         *)
(* Representation.  A Rust u32 is a pair <<hi, lo>> of 16-bit limbs, so    *)
(* that the full 32-bit range and its overflow are kept.  A Rust String    *)
(* or byte slice is a sequence of bytes 0..255.  Option/Result values are  *)
(* records with a "kind" field.                                            *)
(***************************************************************************)
EXTENDS Integers, Sequences, FiniteSets, TLC

VARIABLES
    overflow_checks,  \* build profile: TRUE = debug (overflow panics), FALSE = release (wraps)
    sections,         \* SectionTable.sections handed to rva_to_file_offset
    rva,              \* the address handed to rva_to_file_offset
    rva_result,       \* Pending or the value rva_to_file_offset returned
    data,             \* the bytes handed to the parser a specification runs
    parse_result,     \* Pending or the outcome of that parser
    env,              \* what the registry, the directories and PATH answer to SearchPath::new
    new_result,       \* Pending or the outcome of SearchPath::new
    search_path,      \* the SearchPath snapshot
    query,            \* the name handed to SearchPath::search
    search_result,    \* Pending or the value SearchPath::search returned
    fs,               \* the files on disk: path -> bytes
    parsed,           \* path -> what File::parse returns for the bytes of the file
    files,            \* DllDatabase.files: name -> Option<DllInfo>
    visited,          \* walk_dlls: the names processed
    queue,            \* walk_dlls: the work list (the last element is popped first)
    pc,               \* "walk": in the loop of walk_dlls, "done": it returned, "panicked": the process aborted
    search_calls,     \* name -> the number of SearchPath::search calls search_dll made for it
    read_calls,       \* name -> the number of file reads parse_dll made for it
    root,             \* walk_dlls: the name it was called with
    pops,             \* walk_dlls: name -> the number of iterations that popped it
    alt_files,        \* the catalog of the walker that marks names when it pushes them
    alt_seen,         \* that walker's seen-set
    alt_queue,        \* that walker's work list
    alt_pc,           \* that walker's position: "walk", "done" or "panicked"
    command,          \* main: the command line (Tree or List, max depth, absolute path)
    print_stack,      \* TreePrinter::print: the frames of the recursion, innermost last
    printed,          \* the lines written to the output
    print_pc          \* "idle", "printing", "returned" or "overflow" (the stack is exhausted)

rvaVars == <<sections, rva, rva_result>>
parseVars == <<data, parse_result>>
newVars == <<env, new_result>>
searchVars == <<search_path, query, search_result>>
walkVars == <<fs, parsed, files, visited, queue, pc, search_calls, read_calls, root, pops>>
altVars == <<alt_files, alt_seen, alt_queue, alt_pc>>
printVars == <<command, print_stack, printed, print_pc>>
vars == <<overflow_checks, rvaVars, parseVars, newVars, searchVars, walkVars, altVars, printVars>>

(***************************************************************************)
(* u32 arithmetic on 16-bit limbs.                                         *)
(***************************************************************************)
Limb == 65536

U32(hi, lo) == <<hi, lo>>

U32Zero == U32(0, 0)

U32Lt(a, b) == a[1] < b[1] \/ (a[1] = b[1] /\ a[2] < b[2])

U32Le(a, b) == a = b \/ U32Lt(a, b)

\* a + b as Rust computes it: overflow is reported beside the wrapped sum
U32Add(a, b) ==
    LET lo    == a[2] + b[2]
        carry == lo \div Limb
        hi    == a[1] + b[1] + carry
    IN  [value |-> U32(hi % Limb, lo % Limb), overflow |-> hi >= Limb]

\* a - b as Rust computes it: underflow is reported beside the wrapped difference
U32Sub(a, b) ==
    LET borrow == IF a[2] < b[2] THEN 1 ELSE 0
        lo     == a[2] + borrow * Limb - b[2]
        hi     == a[1] - b[1] - borrow
    IN  [value |-> U32((hi + Limb) % Limb, lo), overflow |-> hi < 0]

(***************************************************************************)
(* Option<u32> with the panic an overflow-checked build raises.            *)
(***************************************************************************)
Some(v) == [kind |-> "Some", value |-> v]
None == [kind |-> "None", value |-> U32Zero]
Panic == [kind |-> "Panic", value |-> U32Zero]
\* not yet called / not part of the running specification
Pending == [kind |-> "Pending", value |-> U32Zero]
Idle == [kind |-> "Idle", value |-> U32Zero]

Section(vs, va, rs, ra) ==
    [virtual_size |-> vs, virtual_address |-> va,
     raw_data_size |-> rs, raw_data_address |-> ra]

\* the body of the for loop of rva_to_file_offset for one section:
\* "Continue" when the section does not contain the address
RvaInSection(section, addr, checks) ==
    LET end == U32Add(section.virtual_address, section.virtual_size)
    IN  IF ~U32Le(section.virtual_address, addr) THEN [kind |-> "Continue", value |-> U32Zero]
        ELSE IF end.overflow /\ checks THEN Panic
        ELSE IF ~U32Lt(addr, end.value) THEN [kind |-> "Continue", value |-> U32Zero]
        ELSE LET sum == U32Add(section.raw_data_address, addr)
                 dif == U32Sub(sum.value, section.virtual_address)
             IN  IF (sum.overflow \/ dif.overflow) /\ checks THEN Panic
                 ELSE Some(dif.value)

RECURSIVE RvaScan(_, _, _, _)
RvaScan(secs, i, addr, checks) ==
    IF i > Len(secs) THEN None
    ELSE LET r == RvaInSection(secs[i], addr, checks)
         IN  IF r.kind = "Continue" THEN RvaScan(secs, i + 1, addr, checks) ELSE r

rva_to_file_offset(secs, addr, checks) == RvaScan(secs, 1, addr, checks)

(***************************************************************************)
(* Byte slices.  Every slice the parser handles is a suffix of the file's  *)
(* bytes, so a slice is the pair of the bytes and the 0-based offset at    *)
(* which it starts.                                                        *)
(***************************************************************************)
Byte == 256

\* nom's le_u16 / le_u32 at 0-based offset pos (the caller checks the length)
le_u16(bytes, pos) == bytes[pos + 1] + Byte * bytes[pos + 2]

le_u32(bytes, pos) == U32(le_u16(bytes, pos + 2), le_u16(bytes, pos))

\* u32 as usize <= bytes.len(): the condition under which &data[offset as usize..] does not panic
SliceInBounds(bytes, offset) == offset[1] = 0 /\ offset[2] <= Len(bytes)

\* std::str::from_utf8(...).is_ok() on bytes[from..to] (1-based, inclusive)
RECURSIVE Utf8Valid(_, _, _)
Utf8Valid(bytes, from, to) ==
    LET Cont(k) == from + k <= to /\ bytes[from + k] >= 128 /\ bytes[from + k] <= 191
        In(k, l, h) == from + k <= to /\ bytes[from + k] >= l /\ bytes[from + k] <= h
        b == bytes[from]
    IN  IF from > to THEN TRUE
        ELSE IF b < 128 THEN Utf8Valid(bytes, from + 1, to)
        ELSE IF b >= 194 /\ b <= 223 THEN Cont(1) /\ Utf8Valid(bytes, from + 2, to)
        ELSE IF b = 224 THEN In(1, 160, 191) /\ Cont(2) /\ Utf8Valid(bytes, from + 3, to)
        ELSE IF b = 237 THEN In(1, 128, 159) /\ Cont(2) /\ Utf8Valid(bytes, from + 3, to)
        ELSE IF b >= 225 /\ b <= 239 THEN Cont(1) /\ Cont(2) /\ Utf8Valid(bytes, from + 3, to)
        ELSE IF b = 240 THEN In(1, 144, 191) /\ Cont(2) /\ Cont(3) /\ Utf8Valid(bytes, from + 4, to)
        ELSE IF b = 244 THEN In(1, 128, 143) /\ Cont(2) /\ Cont(3) /\ Utf8Valid(bytes, from + 4, to)
        ELSE IF b >= 241 /\ b <= 243 THEN Cont(1) /\ Cont(2) /\ Cont(3) /\ Utf8Valid(bytes, from + 4, to)
        ELSE FALSE

(***************************************************************************)
(* Parser results: Ok with a value and the offset of the remaining input,  *)
(* Err (a nom error), or Panic (the process aborts).                       *)
(***************************************************************************)
POk(v, rest) == [kind |-> "Ok", value |-> v, rest |-> rest]
PErr == [kind |-> "Err", value |-> <<>>, rest |-> 0]
PPanic == [kind |-> "Panic", value |-> <<>>, rest |-> 0]

\* MsDosHeader::parse: the u32 at 0x3C is the offset of the COFF header
PeOffsetField == 60

MsDosHeader_parse(bytes) ==
    IF Len(bytes) < PeOffsetField + 4 THEN PErr
    ELSE POk([pe_offset |-> le_u32(bytes, PeOffsetField)], PeOffsetField + 4)

\* CoffHeader::parse: tag "PE\0\0", le_u16, le_u16, take(12), le_u16, le_u16
CoffHeaderSize == 24

PeSignature == <<80, 69, 0, 0>>

CoffHeader_parse(bytes, pos) ==
    IF Len(bytes) - pos < CoffHeaderSize THEN PErr
    ELSE IF SubSeq(bytes, pos + 1, pos + 4) # PeSignature THEN PErr
    ELSE POk([number_of_sections |-> le_u16(bytes, pos + 6),
              size_of_optional_header |-> le_u16(bytes, pos + 20)],
             pos + CoffHeaderSize)

\* OptionalHeader::parse: the magic selects the architecture; the data
\* directories follow the fixed part, the second one is the Import Table
MagicX86 == 267
MagicX64 == 523
FixedSizeX86 == 96
FixedSizeX64 == 112
DataDirectorySize == 8
ImportTableIndex == 1

OptionalHeader_parse(bytes, pos) ==
    IF Len(bytes) - pos < 2 THEN PErr
    ELSE LET magic == le_u16(bytes, pos)
             fixed == IF magic = MagicX86 THEN FixedSizeX86 ELSE FixedSizeX64
         IN  IF magic \notin {MagicX86, MagicX64} THEN PErr
             ELSE IF Len(bytes) - pos < fixed THEN PErr
             ELSE LET count == le_u32(bytes, pos + fixed - 4)
                      avail == (Len(bytes) - pos - fixed) \div DataDirectorySize
                  IN  IF count[1] # 0 \/ count[2] > avail THEN PErr
                      ELSE POk([data_directories |->
                                    [i \in 1..count[2] |->
                                        [rva  |-> le_u32(bytes, pos + fixed + DataDirectorySize * (i - 1)),
                                         size |-> le_u32(bytes, pos + fixed + DataDirectorySize * (i - 1) + 4)]]],
                               pos + fixed + DataDirectorySize * count[2])

\* OptionalHeader::get_import_table_entry
get_import_table_entry(optional_header) ==
    IF Len(optional_header.data_directories) > ImportTableIndex
    THEN [kind |-> "Some", value |-> optional_header.data_directories[ImportTableIndex + 1]]
    ELSE [kind |-> "None", value |-> [rva |-> U32Zero, size |-> U32Zero]]

\* SectionTable::parse: count(tuple(take(8), 6 x le_u32, 2 x le_u16, le_u32), number_of_sections)
SectionRecordSize == 40

SectionTable_parse(bytes, pos, number_of_sections) ==
    IF Len(bytes) - pos < SectionRecordSize * number_of_sections THEN PErr
    ELSE POk([i \in 1..number_of_sections |->
                 LET at == pos + SectionRecordSize * (i - 1)
                 IN  Section(le_u32(bytes, at + 8), le_u32(bytes, at + 12),
                             le_u32(bytes, at + 16), le_u32(bytes, at + 20))],
             pos + SectionRecordSize * number_of_sections)

\* ImportTable::parse_import_directory_table: 20-byte entries up to the first
\* one whose first u32 is zero
DirectoryEntrySize == 20

\* the loop of parse_import_directory_table pushing the null entry too
RECURSIVE ParseDirectoryEntriesWithTerminator(_, _, _)
ParseDirectoryEntriesWithTerminator(bytes, pos, entries) ==
    IF Len(bytes) - pos < DirectoryEntrySize THEN PErr
    ELSE IF le_u32(bytes, pos) = U32Zero
         THEN POk(Append(entries, [import_lookup_table_rva |-> le_u32(bytes, pos),
                                   name_rva |-> le_u32(bytes, pos + 12)]),
                  pos + DirectoryEntrySize)
    ELSE ParseDirectoryEntriesWithTerminator(bytes, pos + DirectoryEntrySize,
             Append(entries, [import_lookup_table_rva |-> le_u32(bytes, pos),
                              name_rva |-> le_u32(bytes, pos + 12)]))

RECURSIVE ParseDirectoryEntries(_, _, _)
ParseDirectoryEntries(bytes, pos, entries) ==
    IF Len(bytes) - pos < DirectoryEntrySize THEN PErr
    ELSE IF le_u32(bytes, pos) = U32Zero THEN POk(entries, pos + DirectoryEntrySize)
    ELSE ParseDirectoryEntries(bytes, pos + DirectoryEntrySize,
             Append(entries, [import_lookup_table_rva |-> le_u32(bytes, pos),
                              name_rva |-> le_u32(bytes, pos + 12)]))

parse_import_directory_table(bytes, pos) == ParseDirectoryEntries(bytes, pos, <<>>)

\* take_while1(|c| c != 0): the 1-based index of the last byte of the run that starts at pos
RECURSIVE RunEnd(_, _)
RunEnd(bytes, pos) ==
    IF pos < Len(bytes) /\ bytes[pos + 1] # 0 THEN RunEnd(bytes, pos + 1) ELSE pos

\* the body of the for loop of ImportTable::parse for one directory entry
ReadImportName(bytes, secs, entry, checks) ==
    LET offset == rva_to_file_offset(secs, entry.name_rva, checks)
    IN  IF offset.kind = "Panic" THEN PPanic
        ELSE IF offset.kind = "None" THEN PErr
        ELSE IF ~SliceInBounds(bytes, offset.value) THEN PPanic
        ELSE LET start == offset.value[2]
                 end   == RunEnd(bytes, start)
             IN  IF end = start THEN PErr
                 ELSE IF ~Utf8Valid(bytes, start + 1, end) THEN PErr
                 ELSE POk(SubSeq(bytes, start + 1, end), end)

RECURSIVE ReadImportNames(_, _, _, _, _, _)
ReadImportNames(bytes, secs, entries, i, imports, checks) ==
    IF i > Len(entries) THEN POk(imports, 0)
    ELSE LET name == ReadImportName(bytes, secs, entries[i], checks)
         IN  IF name.kind # "Ok" THEN name
             ELSE ReadImportNames(bytes, secs, entries, i + 1, Append(imports, name.value), checks)

ImportTable_parse(bytes, pos, secs, checks) ==
    LET directory_table == parse_import_directory_table(bytes, pos)
    IN  IF directory_table.kind # "Ok" THEN directory_table
        ELSE LET names == ReadImportNames(bytes, secs, directory_table.value, 1, <<>>, checks)
             IN  IF names.kind # "Ok" THEN names ELSE POk(names.value, directory_table.rest)

\* File::parse, from the import table entry on
ParseImports(bytes, secs, import_table_entry, checks) ==
    IF import_table_entry.kind = "None" \/ import_table_entry.value.rva = U32Zero THEN POk(<<>>, 0)
    ELSE LET import_table_offset == rva_to_file_offset(secs, import_table_entry.value.rva, checks)
         IN  IF import_table_offset.kind = "Panic" THEN PPanic
             ELSE IF import_table_offset.kind = "None" THEN PErr
             ELSE IF ~SliceInBounds(bytes, import_table_offset.value) THEN PPanic
             ELSE ImportTable_parse(bytes, import_table_offset.value[2], secs, checks)

\* File::parse: the result is Ok with the imported names, Err, or Panic
File_parse(bytes, checks) ==
    LET msdos_header == MsDosHeader_parse(bytes)
    IN  IF msdos_header.kind # "Ok" THEN PErr
        ELSE IF ~SliceInBounds(bytes, msdos_header.value.pe_offset) THEN PPanic
        ELSE LET coff_header == CoffHeader_parse(bytes, msdos_header.value.pe_offset[2])
             IN  IF coff_header.kind # "Ok" THEN PErr
        ELSE LET optional_header == OptionalHeader_parse(bytes, coff_header.rest)
             IN  IF optional_header.kind # "Ok" THEN PErr
        ELSE LET section_table == SectionTable_parse(bytes, optional_header.rest,
                                                     coff_header.value.number_of_sections)
             IN  IF section_table.kind # "Ok" THEN PErr
        ELSE LET imports == ParseImports(bytes, section_table.value,
                                         get_import_table_entry(optional_header.value), checks)
             IN  IF imports.kind # "Ok" THEN imports ELSE POk(imports.value, 0)

(***************************************************************************)
(* File contents.  The images the specifications read are laid out byte    *)
(* for byte as the parser consumes them: the MS-DOS header with the offset *)
(* at 0x3C, the COFF header, a PE32 optional header with two data          *)
(* directories, the section table, and one section's raw data holding the  *)
(* import directory table and the NUL-terminated names.                    *)
(***************************************************************************)
Zeros(n) == [i \in 1..n |-> 0]

LE2(n) == <<n % Byte, n \div Byte>>

LE4(u) == LE2(u[2]) \o LE2(u[1])

RECURSIVE Flatten(_)
Flatten(seqs) == IF seqs = <<>> THEN <<>> ELSE Head(seqs) \o Flatten(Tail(seqs))

Take(bytes, n) == SubSeq(bytes, 1, n)

\* bytes with the bytes at 0-based offset pos replaced by patch
Patch(bytes, pos, patch) ==
    [i \in 1..Len(bytes) |-> IF i > pos /\ i <= pos + Len(patch) THEN patch[i - pos] ELSE bytes[i]]

SectionRecord(section) ==
    <<46, 105, 100, 97, 116, 97, 0, 0>> \o LE4(section.virtual_size) \o LE4(section.virtual_address)
        \o LE4(section.raw_data_size) \o LE4(section.raw_data_address) \o Zeros(16)

\* offsets of the image's parts
ImageCoffOffset == 64
ImageOptionalOffset == ImageCoffOffset + CoffHeaderSize
ImageSectionsOffset == ImageOptionalOffset + FixedSizeX86 + 2 * DataDirectorySize
ImageImportDirectoryField == ImageOptionalOffset + FixedSizeX86 + DataDirectorySize
ImageDataOffset == ImageSectionsOffset + SectionRecordSize
ImageDataRva == 4096

ImageHeaders(number_of_sections, import_rva) ==
    <<77, 90>> \o Zeros(PeOffsetField - 2) \o LE4(U32(0, ImageCoffOffset))
        \o PeSignature \o LE2(332) \o LE2(number_of_sections) \o Zeros(12)
        \o LE2(FixedSizeX86 + 2 * DataDirectorySize) \o LE2(258)
        \o LE2(MagicX86) \o Zeros(FixedSizeX86 - 6) \o LE4(U32(0, 2))
        \o Zeros(DataDirectorySize) \o LE4(import_rva) \o Zeros(4)

RECURSIVE NameOffset(_, _)
NameOffset(names, i) == IF i = 1 THEN 0 ELSE NameOffset(names, i - 1) + Len(names[i - 1]) + 1

\* the import directory table of names (with its terminator) followed by the names
ImportData(names) ==
    LET k == Len(names)
        Entry(i) == LE4(U32(0, ImageDataRva)) \o Zeros(8)
                        \o LE4(U32(0, ImageDataRva + DirectoryEntrySize * (k + 1) + NameOffset(names, i)))
                        \o Zeros(4)
    IN  Flatten([i \in 1..k |-> Entry(i)]) \o Zeros(DirectoryEntrySize)
            \o Flatten([i \in 1..k |-> Append(names[i], 0)])

\* a well-formed image that imports names, in order; without imports the
\* Import Table entry's address is zero
Image(names) ==
    LET payload == ImportData(names)
        section == Section(U32(0, Len(payload)), U32(0, ImageDataRva),
                           U32(0, Len(payload)), U32(0, ImageDataOffset))
    IN  ImageHeaders(1, IF names = <<>> THEN U32Zero ELSE U32(0, ImageDataRva))
            \o SectionRecord(section) \o payload

(***************************************************************************)
(* Names.  A String is its UTF-8 bytes.  to_lowercase is modelled on the   *)
(* ASCII letters; the names of the specifications are ASCII.               *)
(***************************************************************************)
ToLowerByte(b) == IF b >= 65 /\ b <= 90 THEN b + 32 ELSE b

to_lowercase(str) == [i \in 1..Len(str) |-> ToLowerByte(str[i])]

\* umbrella_dll_regex.is_match: an unanchored match of (api|ext)-.*-l\d+-\d+-\d+.dll
IsDigit(b) == b >= 48 /\ b <= 57

Digits(str, from, to) == from <= to /\ \A k \in from..to : IsDigit(str[k])

\* the bytes of the UTF-8 character that starts with b
CharLen(b) == IF b < 128 THEN 1 ELSE IF b < 224 THEN 2 ELSE IF b < 240 THEN 3 ELSE 4

\* "." (any character but the line feed) and then "dll", from index at
DotDll(str, at) ==
    /\ at <= Len(str) /\ str[at] # 10
    /\ at + CharLen(str[at]) + 2 <= Len(str)
    /\ SubSeq(str, at + CharLen(str[at]), at + CharLen(str[at]) + 2) = <<100, 108, 108>>

\* "-l\d+-\d+-\d+.dll" from index at
LevelSuffix(str, at) ==
    /\ at + 1 <= Len(str) /\ str[at] = 45 /\ str[at + 1] = 108
    /\ \E e1 \in (at + 2)..Len(str) : \E e2 \in (e1 + 2)..Len(str) : \E e3 \in (e2 + 2)..Len(str) :
        /\ Digits(str, at + 2, e1) /\ str[e1 + 1] = 45
        /\ Digits(str, e1 + 2, e2) /\ str[e2 + 1] = 45
        /\ Digits(str, e2 + 2, e3)
        /\ DotDll(str, e3 + 1)

umbrella_dll_regex_is_match(str) ==
    \E i \in 1..Len(str) :
        /\ i + 3 <= Len(str)
        /\ SubSeq(str, i, i + 2) \in { <<97, 112, 105>>, <<101, 120, 116>> }
        /\ str[i + 3] = 45
        /\ \E j \in (i + 4)..Len(str) :
            /\ \A k \in (i + 4)..(j - 1) : str[k] # 10
            /\ LevelSuffix(str, j)

(***************************************************************************)
(* SearchPath.  A directory listing maps lowercased file names to paths; a *)
(* path is the directory and the file name as spelled in it.               *)
(***************************************************************************)
PathOf(dir, file) == [dir |-> dir, file |-> file]

\* PathBuf::new()
EmptyPath == PathOf(<<"", 0>>, <<>>)

Found(path, dll_type) == [kind |-> "Some", path |-> path, dll_type |-> dll_type]
NotFound == [kind |-> "None", path |-> EmptyPath, dll_type |-> "-"]
NotSearched == [kind |-> "Pending", path |-> EmptyPath, dll_type |-> "-"]
NoSearch == [kind |-> "Idle", path |-> EmptyPath, dll_type |-> "-"]

\* the first directory of PATH, from index i on, that holds the name
RECURSIVE SearchPathDirectories(_, _, _)
SearchPathDirectories(path_directory_files, i, lname) ==
    IF i > Len(path_directory_files) THEN NotFound
    ELSE IF lname \in DOMAIN path_directory_files[i]
         THEN Found(path_directory_files[i][lname], "Path")
         ELSE SearchPathDirectories(path_directory_files, i + 1, lname)

\* the tail both branches of search share: PATH, then the umbrella pattern
SearchPathThenUmbrella(sp, lname) ==
    LET in_path == SearchPathDirectories(sp.path_directory_files, 1, lname)
    IN  IF in_path.kind = "Some" THEN in_path
        ELSE IF umbrella_dll_regex_is_match(lname) THEN Found(EmptyPath, "Umbrella")
        ELSE NotFound

\* the two branches of SearchPath::search, on the lowercased name
SearchBuckets(sp, lname, safe) ==
    IF safe
    THEN IF lname \in DOMAIN sp.known_dll_files THEN Found(sp.known_dll_files[lname], "Known")
         ELSE IF lname \in DOMAIN sp.base_directory_files THEN Found(sp.base_directory_files[lname], "User")
         ELSE IF lname \in DOMAIN sp.system_directory_files THEN Found(sp.system_directory_files[lname], "System")
         ELSE IF lname \in DOMAIN sp.windows_directory_files THEN Found(sp.windows_directory_files[lname], "System")
         ELSE IF lname \in DOMAIN sp.current_directory_files THEN Found(sp.current_directory_files[lname], "User")
         ELSE SearchPathThenUmbrella(sp, lname)
    ELSE IF lname \in DOMAIN sp.known_dll_files THEN Found(sp.known_dll_files[lname], "Known")
         ELSE IF lname \in DOMAIN sp.base_directory_files THEN Found(sp.base_directory_files[lname], "User")
         ELSE IF lname \in DOMAIN sp.current_directory_files THEN Found(sp.current_directory_files[lname], "User")
         ELSE IF lname \in DOMAIN sp.system_directory_files THEN Found(sp.system_directory_files[lname], "System")
         ELSE IF lname \in DOMAIN sp.windows_directory_files THEN Found(sp.windows_directory_files[lname], "System")
         ELSE SearchPathThenUmbrella(sp, lname)

\* search with the safe-search flag ignored (the first branch taken always)
search_ignoring_flag(sp, str) == SearchBuckets(sp, to_lowercase(str), TRUE)

\* search without the to_lowercase of its first line
search_case_sensitive(sp, str) == SearchBuckets(sp, str, sp.safe_search_enabled)

\* SearchPath::search
search(sp, str) == SearchBuckets(sp, to_lowercase(str), sp.safe_search_enabled)

(***************************************************************************)
(* SearchPath::new.  env holds the answers of the collaborators:           *)
(*   safe_search  [ok, value]       read_dword of SafeDllSearchMode        *)
(*   system_dir, windows_dir  [ok]  GetSystemDirectoryA/GetWindowsDirectoryA *)
(*   known        [ok, values]      value_names of KnownDLLs, and for each *)
(*                                  value the answer [ok, text] of read_string *)
(*   listing      dir -> [ok, files]  std::fs::read_dir                    *)
(*   path         the directories of PATH, in order                        *)
(*   base, current                  the directories main passes            *)
(***************************************************************************)
Dir(kind, i) == <<kind, i>>
SystemDirectory == Dir("system32", 0)
WindowsDirectory == Dir("windows", 0)
BaseDirectory == Dir("base", 0)
CurrentDirectory == Dir("current", 0)
PathDirectory(i) == Dir("path", i)

ROk(v) == [kind |-> "Ok", value |-> v]
RErr == [kind |-> "Err", value |-> <<>>]

\* SearchPath::safe_search_enabled
safe_search_enabled(e) == IF e.safe_search.ok THEN e.safe_search.value # 0 ELSE TRUE

\* SearchPath::get_knwon_dll_files
get_knwon_dll_files(e) ==
    IF ~e.known.ok THEN RErr
    ELSE ROk({ to_lowercase(v.text) : v \in { w \in e.known.values : w.ok } })

\* SearchPath::read_directory_files (a directory holds no two names that
\* differ in case only, as on the file systems of the platform)
read_directory_files(e, dir) ==
    IF ~e.listing[dir].ok THEN RErr
    ELSE ROk([lname \in { to_lowercase(f) : f \in e.listing[dir].files } |->
                 PathOf(dir, CHOOSE f \in e.listing[dir].files : to_lowercase(f) = lname)])

\* the loop over PATH giving up at the first directory that cannot be read
RECURSIVE ReadPathDirectoriesUntilFailure(_, _)
ReadPathDirectoriesUntilFailure(e, i) ==
    IF i > Len(e.path) \/ ~e.listing[e.path[i]].ok THEN <<>>
    ELSE <<read_directory_files(e, e.path[i]).value>> \o ReadPathDirectoriesUntilFailure(e, i + 1)

\* the loop over PATH: a directory that cannot be read is skipped
RECURSIVE ReadPathDirectories(_, _)
ReadPathDirectories(e, i) ==
    IF i > Len(e.path) THEN <<>>
    ELSE LET listed == read_directory_files(e, e.path[i])
         IN  (IF listed.kind = "Ok" THEN <<listed.value>> ELSE <<>>) \o ReadPathDirectories(e, i + 1)

SearchPath_new(e) ==
    LET known   == get_knwon_dll_files(e)
        base    == read_directory_files(e, e.base)
        system  == read_directory_files(e, SystemDirectory)
        windows == read_directory_files(e, WindowsDirectory)
        current == read_directory_files(e, e.current)
    IN  IF ~e.system_dir.ok THEN RErr
        ELSE IF known.kind = "Err" THEN RErr
        ELSE IF base.kind = "Err" THEN RErr
        ELSE IF system.kind = "Err" THEN RErr
        ELSE IF ~e.windows_dir.ok THEN RErr
        ELSE IF windows.kind = "Err" THEN RErr
        ELSE IF current.kind = "Err" THEN RErr
        ELSE ROk([safe_search_enabled |-> safe_search_enabled(e),
                  base_directory_files |-> base.value,
                  known_dll_files |-> [lname \in known.value |-> PathOf(SystemDirectory, lname)],
                  system_directory_files |-> system.value,
                  windows_directory_files |-> windows.value,
                  path_directory_files |-> ReadPathDirectories(e, 1),
                  current_directory_files |-> current.value])

(***************************************************************************)
(* DllDatabase.  files maps a name, as spelled by the caller, to            *)
(* Option<DllInfo>: a key that is absent was never inserted, an entry of   *)
(* kind "None" is the Option None.                                         *)
(***************************************************************************)
DllInfo(path, dll_type, imports) ==
    [kind |-> "Some", path |-> path, dll_type |-> dll_type, imports |-> imports]
NoInfo == [kind |-> "None", path |-> EmptyPath, dll_type |-> "-", imports |-> <<>>]
InfoPanic == [kind |-> "Panic", path |-> EmptyPath, dll_type |-> "-", imports |-> <<>>]

\* HashMap::insert
Insert(map, key, value) == [k \in DOMAIN map \cup {key} |-> IF k = key THEN value ELSE map[k]]

\* DllDatabase::get_dll_info
get_dll_info(db_files, str) ==
    IF str \in DOMAIN db_files /\ db_files[str].kind = "Some" THEN db_files[str] ELSE NoInfo

\* the files a path names: the file of the directory whose name is the
\* path's name up to case (the file systems of the platform ignore case)
fs_file(disk, path) ==
    { p \in DOMAIN disk : p.dir = path.dir /\ to_lowercase(p.file) = to_lowercase(path.file) }

\* parse_dll, the match on what File::parse returned
ParsedInfo(path, dll_type, file) ==
    IF file.kind = "Ok" THEN DllInfo(path, dll_type, file.value)
    ELSE IF file.kind = "Err" THEN NoInfo
    ELSE InfoPanic

\* parse_dll without its first test: the path of an Umbrella is read as well
parse_dll_reading_umbrella(disk, table, path, dll_type) ==
    IF fs_file(disk, path) = {} THEN NoInfo
    ELSE ParsedInfo(path, dll_type, table[CHOOSE p \in fs_file(disk, path) : TRUE])

\* DllDatabase::parse_dll.  std::fs::read fails when the path names no file;
\* File::parse is a function of the bytes read, and table holds its value for
\* every file on disk.
parse_dll(disk, table, path, dll_type) ==
    IF dll_type = "Umbrella" THEN DllInfo(path, dll_type, <<>>)
    ELSE IF fs_file(disk, path) = {} THEN NoInfo
    ELSE ParsedInfo(path, dll_type, table[CHOOSE p \in fs_file(disk, path) : TRUE])

\* search_dll, the insertion of info under the name as the caller spelled it,
\* and the second get_dll_info
InsertInfo(db_files, str, info, read) ==
    [panic    |-> info.kind = "Panic",
     files    |-> IF info.kind = "Panic" THEN db_files ELSE Insert(db_files, str, info),
     result   |-> IF info.kind = "Panic" THEN NoInfo ELSE info,
     searched |-> TRUE,
     read     |-> read]

\* parse_dll reads the file unless it returns at its first test
parse_dll_reads(dll_type) == dll_type # "Umbrella"

\* search_dll, the match on what SearchPath::search returned
ResolveFound(db_files, disk, table, str, found) ==
    InsertInfo(db_files, str,
               IF found.kind = "Some" THEN parse_dll(disk, table, found.path, found.dll_type)
               ELSE NoInfo,
               found.kind = "Some" /\ parse_dll_reads(found.dll_type))

\* search_dll without the test of its first line: every call resolves anew
search_dll_uncached(db_files, sp, disk, table, str) ==
    ResolveFound(db_files, disk, table, str, search(sp, str))

\* DllDatabase::search_dll: the database after the call, the value returned,
\* whether the call panicked, and whether it searched and read
search_dll(db_files, sp, disk, table, str) ==
    IF get_dll_info(db_files, str).kind = "None"
    THEN search_dll_uncached(db_files, sp, disk, table, str)
    ELSE [panic |-> FALSE, files |-> db_files, result |-> get_dll_info(db_files, str),
          searched |-> FALSE, read |-> FALSE]

(***************************************************************************)
(* The values of the variables of the operations a specification does not  *)
(* run.                                                                    *)
(***************************************************************************)
ParseIdle == data = <<>> /\ parse_result = Idle

RvaIdle == sections = <<>> /\ rva = U32Zero /\ rva_result = Idle

NewIdle == env = <<>> /\ new_result = [kind |-> "Idle", value |-> <<>>]

SearchCallIdle == query = <<>> /\ search_result = NoSearch

SearchIdle == search_path = <<>> /\ SearchCallIdle

\* Option<u32> of the depth argument
NoDepth == [kind |-> "None", value |-> 0]
Depth(n) == [kind |-> "Some", value |-> n]

NoCommand == [kind |-> "None", max_depth |-> NoDepth, absolute_path |-> FALSE]

AltIdle == alt_files = <<>> /\ alt_seen = {} /\ alt_queue = <<>> /\ alt_pc = "idle"

PrintIdle == command = NoCommand /\ print_stack = <<>> /\ printed = {} /\ print_pc = "idle"

WalkIdle ==
    /\ fs = <<>> /\ parsed = <<>> /\ files = <<>> /\ visited = {} /\ queue = <<>> /\ pc = "idle"
    /\ search_calls = <<>> /\ read_calls = <<>>
    /\ root = <<>> /\ pops = <<>>
    /\ AltIdle /\ PrintIdle

(***************************************************************************)
(* RvaSpec: rva_to_file_offset applied to section tables and addresses     *)
(* drawn from the whole u32 range.                                         *)
(***************************************************************************)
MaxSections == 2

\* u32 samples: the values of test::rva_to_raw and values next to 2^32
RvaAddresses ==
    { U32(0, \h0fff), U32(0, \h1000), U32(0, \h1010), U32(0, \h10ff), U32(0, \h1100),
      U32(0, \h1fff), U32(0, \h2080), U32(0, \h2100),
      U32(\hffff, \hff00), U32(\hffff, \hff80), U32(\hffff, \hffff) }

RvaSections ==
    { Section(U32(0, \h100), U32(0, \h1000), U32(0, \h100), U32(0, \h500)),
      Section(U32(0, \h100), U32(0, \h2000), U32(0, \h100), U32(0, \h800)),
      Section(U32(0, \h1100), U32(0, \h1000), U32(0, \h100), U32(0, \h900)),
      Section(U32(0, \h200), U32(\hffff, \hff00), U32(0, \h200), U32(0, \h500)),
      Section(U32(0, \h100), U32(\hffff, \hff00), U32(0, \h100), U32(\hffff, \hffc0)),
      Section(U32(0, \h100), U32(\h8000, 0), U32(0, \h100), U32(\h8000, 0)),
      Section(U32(0, 0), U32(0, \h1000), U32(0, 0), U32(0, \h500)) }

SeqsUpTo(S, n) == UNION { [1..k -> S] : k \in 0..n }


RvaInit ==
    /\ ParseIdle /\ NewIdle /\ SearchIdle /\ WalkIdle
    /\ overflow_checks \in BOOLEAN
    /\ sections \in SeqsUpTo(RvaSections, MaxSections)
    /\ rva \in RvaAddresses \cup { U32(\h8000, \h10) }
    /\ rva_result = Pending

RvaToFileOffset ==
    /\ rva_result = Pending
    /\ rva_result' = rva_to_file_offset(sections, rva, overflow_checks)
    /\ UNCHANGED <<overflow_checks, sections, rva, parseVars, newVars, searchVars, walkVars, altVars, printVars>>

RvaNext == RvaToFileOffset

RvaSpec == RvaInit /\ [][RvaNext]_vars

\* the address lies in the half-open range [virtual_address, virtual_address + virtual_size)
InVirtualRange(section, addr) ==
    /\ U32Le(section.virtual_address, addr)
    /\ U32Lt(U32Sub(addr, section.virtual_address).value, section.virtual_size)

FirstContaining(secs, addr) ==
    LET hits == { i \in 1..Len(secs) : InVirtualRange(secs[i], addr) }
    IN  IF hits = {} THEN 0 ELSE CHOOSE i \in hits : \A j \in hits : i <= j

\* C8: whenever the address lies in [virtual_address, virtual_address + virtual_size)
\* of some section, rva_to_file_offset returns raw_data_address + (a - virtual_address)
\* of the first such section, and None when no section contains the address.
C8_RvaTranslation ==
    rva_result.kind # "Pending" =>
        LET i == FirstContaining(sections, rva)
        IN  IF i = 0 THEN rva_result = None
            ELSE LET off == U32Add(sections[i].raw_data_address,
                                   U32Sub(rva, sections[i].virtual_address).value)
                 IN  ~off.overflow /\ rva_result = Some(off.value)

(***************************************************************************)
(* ParseSpec: File::parse applied to byte sequences: a well-formed image,  *)
(* every prefix of it, every image that differs from it in one byte, and   *)
(* images whose section fields reach the end of the u32 range.             *)
(***************************************************************************)
a_dll == <<97, 46, 100, 108, 108>>      \* "a.dll"
A_DLL == <<65, 46, 68, 76, 76>>         \* "A.DLL"
b_dll == <<98, 46, 100, 108, 108>>      \* "b.dll"
c_dll == <<99, 46, 100, 108, 108>>      \* "c.dll"
m_dll == <<109, 46, 100, 108, 108>>     \* "m.dll"

SampleImage == Image(<<b_dll, A_DLL>>)

PatchValues == {0, 128, 255}

\* the sample image with its section's virtual range, raw address and the
\* Import Table address replaced
ImageAt(vs, va, ra, import_rva) ==
    Patch(Patch(SampleImage, ImageImportDirectoryField, LE4(import_rva)),
          ImageSectionsOffset + 8, LE4(vs) \o LE4(va) \o LE4(vs) \o LE4(ra))

EdgeImages ==
    { ImageAt(U32(0, 512), U32(65535, 65280), U32(0, ImageDataOffset), U32(65535, 65408)),
      ImageAt(U32(0, 256), U32(0, ImageDataRva), U32(65535, 65280), U32(0, ImageDataRva + 16)),
      ImageAt(U32(0, 256), U32(0, ImageDataRva), U32(0, 4096), U32(0, ImageDataRva)),
      ImageAt(U32(0, 256), U32(0, ImageDataRva), U32(0, 8), U32(0, ImageDataRva)),
      Patch(SampleImage, PeOffsetField, LE4(U32(0, Len(SampleImage)))),
      Patch(SampleImage, PeOffsetField, LE4(U32(0, Len(SampleImage) + 1))),
      Patch(Take(SampleImage, PeOffsetField + 4), PeOffsetField, LE4(U32(0, PeOffsetField + 5))),
      Image(<<>>), Take(Image(<<>>), ImageSectionsOffset), Take(Image(<<>>), ImageSectionsOffset + 1),
      Image(<<a_dll>>), Image(<<a_dll, <<255, 46, 100>> >>), Image(<<a_dll, <<195, 169, 46, 100>> >>) }

ParseInputs ==
    { Take(SampleImage, n) : n \in 0..Len(SampleImage) }
        \cup { Patch(SampleImage, pos, <<v>>) : pos \in 0..(Len(SampleImage) - 1), v \in PatchValues }
        \cup EdgeImages

ParseInit ==
    /\ RvaIdle /\ NewIdle /\ SearchIdle /\ WalkIdle
    /\ overflow_checks \in BOOLEAN
    /\ data \in ParseInputs
    /\ parse_result = Pending

FileParse ==
    /\ parse_result = Pending
    /\ parse_result' = File_parse(data, overflow_checks)
    /\ UNCHANGED <<overflow_checks, data, rvaVars, newVars, searchVars, walkVars, altVars, printVars>>

ParseNext == FileParse

ParseSpec == ParseInit /\ [][ParseNext]_vars

\* C7: for every byte sequence File::parse returns a File or a structural
\* parse error: it never panics and never indexes outside the bytes.
C7_ParseFailClosed == parse_result.kind \in {"Pending", "Ok", "Err"}

(***************************************************************************)
(* NewSpec: SearchPath::new applied to the answers of the registry, the    *)
(* directories and PATH, failures included.                                *)
(***************************************************************************)
MaxPathDirs == 2

\* "api-ms-win-core-sysinfo-l1-2-3.dll"
api_dll ==
    <<97, 112, 105, 45, 109, 115, 45, 119, 105, 110, 45, 99, 111, 114, 101, 45, 115, 121, 115,
      105, 110, 102, 111, 45, 108, 49, 45, 50, 45, 51, 46, 100, 108, 108>>

\* "API-MS-WIN-CORE-SYSINFO-L1-2-3.DLL"
API_DLL == [i \in 1..Len(api_dll) |-> IF api_dll[i] >= 97 /\ api_dll[i] <= 122 THEN api_dll[i] - 32 ELSE api_dll[i]]

Listed(names) == [ok |-> TRUE, files |-> names]
Unreadable == [ok |-> FALSE, files |-> {}]

AllDirectories(n) ==
    {BaseDirectory, SystemDirectory, WindowsDirectory, CurrentDirectory} \cup { PathDirectory(i) : i \in 1..n }

SafeSearchAnswers == { [ok |-> FALSE, value |-> 0], [ok |-> TRUE, value |-> 0], [ok |-> TRUE, value |-> 1] }

Env(safe, sysok, winok, known, listing, n) ==
    [safe_search |-> safe, system_dir |-> [ok |-> sysok], windows_dir |-> [ok |-> winok],
     known |-> known, listing |-> listing, path |-> [i \in 1..n |-> PathDirectory(i)],
     base |-> BaseDirectory, current |-> CurrentDirectory]

KnownAnswers ==
    { [ok |-> FALSE, values |-> {}], [ok |-> TRUE, values |-> {}],
      [ok |-> TRUE, values |-> {[ok |-> TRUE, text |-> A_DLL]}],
      [ok |-> TRUE, values |-> {[ok |-> TRUE, text |-> A_DLL], [ok |-> FALSE, text |-> <<>>]}] }

NewInit ==
    /\ RvaIdle /\ ParseIdle /\ SearchIdle /\ WalkIdle
    /\ overflow_checks = FALSE
    /\ \E n \in 0..MaxPathDirs, safe \in SafeSearchAnswers, sysok \in BOOLEAN, winok \in BOOLEAN,
          known \in KnownAnswers :
            \E listing \in [AllDirectories(n) -> { Unreadable, Listed({}), Listed({A_DLL}) }] :
                env = Env(safe, sysok, winok, known, listing, n)
    /\ new_result = [kind |-> "Pending", value |-> <<>>]

SearchPathNew ==
    /\ new_result.kind = "Pending"
    /\ new_result' = SearchPath_new(env)
    /\ UNCHANGED <<overflow_checks, env, rvaVars, parseVars, searchVars, walkVars, altVars, printVars>>

NewNext == SearchPathNew

NewSpec == NewInit /\ [][NewNext]_vars

\* nothing but the registry fails: the directories SearchPath::new needs are there
OnlyRegistryMayFail(e) ==
    /\ e.system_dir.ok /\ e.windows_dir.ok
    /\ \A d \in {e.base, e.current, SystemDirectory, WindowsDirectory} : e.listing[d].ok

(***************************************************************************)
(* DirectorySpec: ImportTable::parse_import_directory_table on byte         *)
(* sequences made of up to MaxEntries 20-byte entries and a cut-off tail.   *)
(***************************************************************************)
MaxEntries == 3

\* the entries of test::import_directory_table, the null entry, a null entry
\* whose other fields are set, and entries whose first field differs from
\* zero in its highest byte only
DirectoryEntryKinds ==
    << [i \in 1..DirectoryEntrySize |-> i - 1],
       [i \in 1..DirectoryEntrySize |-> DirectoryEntrySize + i - 1],
       Zeros(DirectoryEntrySize),
       Zeros(4) \o [i \in 1..(DirectoryEntrySize - 4) |-> 255],
       <<0, 0, 0, 1>> \o Zeros(DirectoryEntrySize - 4) >>

DirectoryTails == {0, 1, DirectoryEntrySize - 1}

\* the bytes of test::import_directory_table
TestDirectoryTable == DirectoryEntryKinds[1] \o DirectoryEntryKinds[2] \o DirectoryEntryKinds[3]

DirectoryInit ==
    /\ RvaIdle /\ NewIdle /\ SearchIdle /\ WalkIdle
    /\ overflow_checks = FALSE
    /\ \E kinds \in SeqsUpTo(1..Len(DirectoryEntryKinds), MaxEntries), tail \in DirectoryTails :
            data = Flatten([i \in 1..Len(kinds) |-> DirectoryEntryKinds[kinds[i]]])
                       \o Take(DirectoryEntryKinds[1], tail)
    /\ parse_result = Pending

ParseImportDirectoryTable ==
    /\ parse_result = Pending
    /\ parse_result' = parse_import_directory_table(data, 0)
    /\ UNCHANGED <<overflow_checks, data, rvaVars, newVars, searchVars, walkVars, altVars, printVars>>

DirectoryNext == ParseImportDirectoryTable

DirectorySpec == DirectoryInit /\ [][DirectoryNext]_vars

\* field f (0-based) of the i-th 20-byte entry of bytes, little-endian
EntryField(bytes, i, f) ==
    LET at == DirectoryEntrySize * (i - 1) + 4 * f
    IN  U32(bytes[at + 4] * Byte + bytes[at + 3], bytes[at + 2] * Byte + bytes[at + 1])

\* the whole entries of bytes whose first field is zero
Terminators(bytes) ==
    { i \in 1..(Len(bytes) \div DirectoryEntrySize) : EntryField(bytes, i, 0) = U32Zero }

FirstTerminator(bytes) == CHOOSE i \in Terminators(bytes) : \A j \in Terminators(bytes) : i <= j

\* C13: parse_import_directory_table returns, in input order, the entries
\* before the first entry whose first field is zero, each with its first and
\* fourth field; the terminator is not returned; the parse fails when the
\* input ends before a terminator; the table of the unit test gives its two
\* entries.
C13_DirectoryTable ==
    parse_result.kind # "Pending" =>
        /\ Terminators(data) = {} <=> parse_result.kind = "Err"
        /\ Terminators(data) # {} =>
            /\ parse_result.kind = "Ok"
            /\ Len(parse_result.value) = FirstTerminator(data) - 1
            /\ \A i \in 1..(FirstTerminator(data) - 1) :
                  /\ parse_result.value[i].import_lookup_table_rva = EntryField(data, i, 0)
                  /\ parse_result.value[i].name_rva = EntryField(data, i, 3)
            /\ parse_result.rest = DirectoryEntrySize * FirstTerminator(data)
        /\ data = TestDirectoryTable =>
            parse_result.value = << [import_lookup_table_rva |-> U32(770, 256), name_rva |-> U32(3854, 3340)],
                                    [import_lookup_table_rva |-> U32(5910, 5396), name_rva |-> U32(8994, 8480)] >>

\* the table of the unit test parsed to two entries
C13_Witness ==
    /\ data = TestDirectoryTable
    /\ parse_result.kind = "Ok"
    /\ Len(parse_result.value) = 2

\* the headers of bytes parse and the Import Table entry they carry has
\* the address zero
ImportAddressZero(bytes) ==
    LET msdos_header == MsDosHeader_parse(bytes)
    IN  /\ msdos_header.kind = "Ok"
        /\ SliceInBounds(bytes, msdos_header.value.pe_offset)
        /\ LET coff_header == CoffHeader_parse(bytes, msdos_header.value.pe_offset[2])
           IN  /\ coff_header.kind = "Ok"
               /\ LET optional_header == OptionalHeader_parse(bytes, coff_header.rest)
                  IN  /\ optional_header.kind = "Ok"
                      /\ get_import_table_entry(optional_header.value).kind = "Some"
                      /\ get_import_table_entry(optional_header.value).value.rva = U32Zero

\* C12: when the Import Table entry's address is zero File::parse returns Ok
\* with no imports, whatever follows the optional header.
C12_ZeroImportAddressStops ==
    (parse_result.kind # "Pending" /\ ImportAddressZero(data)) =>
        (parse_result.kind = "Ok" /\ parse_result.value = <<>>)

\* the mandatory directories of e: base, system, OS and current
MandatoryDirectories(e) == {e.base, SystemDirectory, WindowsDirectory, e.current}

\* the positions of PATH whose directory can be listed
ReadablePath(e) == { i \in 1..Len(e.path) : e.listing[e.path[i]].ok }

\* C11: SearchPath::new returns an error when a mandatory directory (base,
\* system, OS, current) cannot be listed; a PATH directory that cannot be
\* listed is skipped without failing, and the snapshot keeps the listings of
\* the other PATH directories in their order.
C11_MandatoryFatalPathSkipped ==
    new_result.kind # "Pending" =>
        /\ (\E d \in MandatoryDirectories(env) : ~env.listing[d].ok) => new_result.kind = "Err"
        /\ (/\ \A d \in MandatoryDirectories(env) : env.listing[d].ok
            /\ env.system_dir.ok /\ env.windows_dir.ok /\ env.known.ok) => new_result.kind = "Ok"
        /\ new_result.kind = "Ok" =>
            /\ Len(new_result.value.path_directory_files) = Cardinality(ReadablePath(env))
            /\ \A i \in ReadablePath(env) :
                  new_result.value.path_directory_files[Cardinality({ j \in ReadablePath(env) : j <= i })]
                      = read_directory_files(env, env.path[i]).value

\* a snapshot built although the first PATH directory could not be listed,
\* the second one holding a file
C11_Witness ==
    /\ new_result.kind = "Ok"
    /\ Len(env.path) = 2
    /\ ~env.listing[env.path[1]].ok
    /\ env.listing[env.path[2]].files = {A_DLL}
    /\ Len(new_result.value.path_directory_files) = 1

\* C10: when reading the KnownDLLs list fails SearchPath::new succeeds with an
\* empty known-module set, and when reading SafeDllSearchMode fails it succeeds
\* with safe search enabled.
C10_RegistryFailureDegrades ==
    (new_result.kind # "Pending" /\ OnlyRegistryMayFail(env)) =>
        /\ ~env.known.ok => (new_result.kind = "Ok" /\ DOMAIN new_result.value.known_dll_files = {})
        /\ (~env.safe_search.ok /\ env.known.ok) => (new_result.kind = "Ok" /\ new_result.value.safe_search_enabled)

(***************************************************************************)
(* SearchSpec: SearchPath::search applied to the snapshots SearchPath::new *)
(* builds and to names in several spellings.                               *)
(***************************************************************************)
SearchKnown ==
    { [ok |-> TRUE, values |-> {}], [ok |-> TRUE, values |-> {[ok |-> TRUE, text |-> A_DLL]}],
      [ok |-> TRUE, values |-> {[ok |-> TRUE, text |-> api_dll]}] }

SearchQueries == { a_dll, A_DLL, api_dll, API_DLL, m_dll }

SearchInit ==
    /\ RvaIdle /\ ParseIdle /\ NewIdle /\ WalkIdle
    /\ overflow_checks = FALSE
    /\ \E n \in 0..MaxPathDirs, value \in {0, 1}, known \in SearchKnown :
            \E listing \in [AllDirectories(n) -> { Listed({}), Listed({A_DLL}), Listed({api_dll}) }] :
                search_path = SearchPath_new(Env([ok |-> TRUE, value |-> value], TRUE, TRUE,
                                                 known, listing, n)).value
    /\ query \in SearchQueries
    /\ search_result = NotSearched

Search ==
    /\ search_result = NotSearched
    /\ search_result' = search(search_path, query)
    /\ UNCHANGED <<overflow_checks, search_path, query, rvaVars, parseVars, newVars, walkVars, altVars, printVars>>

SearchNext == Search

SearchSpec == SearchInit /\ [][SearchNext]_vars

\* the buckets in the order the claim gives for the safe-search flag
Bucket(bucket_files, dll_type) == [files |-> bucket_files, dll_type |-> dll_type]

BucketOrder(sp) ==
    (IF sp.safe_search_enabled
     THEN << Bucket(sp.known_dll_files, "Known"), Bucket(sp.base_directory_files, "User"),
             Bucket(sp.system_directory_files, "System"), Bucket(sp.windows_directory_files, "System"),
             Bucket(sp.current_directory_files, "User") >>
     ELSE << Bucket(sp.known_dll_files, "Known"), Bucket(sp.base_directory_files, "User"),
             Bucket(sp.current_directory_files, "User"), Bucket(sp.system_directory_files, "System"),
             Bucket(sp.windows_directory_files, "System") >>)
        \o [i \in 1..Len(sp.path_directory_files) |-> Bucket(sp.path_directory_files[i], "Path")]

Holding(sp, lname) == { i \in 1..Len(BucketOrder(sp)) : lname \in DOMAIN BucketOrder(sp)[i].files }

FirstHolding(sp, lname) == CHOOSE i \in Holding(sp, lname) : \A j \in Holding(sp, lname) : i <= j

\* C3: search returns the entry of the first bucket, in the order of the
\* safe-search flag, that holds the lowercased name, classified by that bucket;
\* the empty path as Umbrella when none holds it and the pattern matches; None
\* otherwise.  A name in the current and system directories only is the
\* current copy (User) without safe search and the system copy (System) with it.
C3_SearchOrder ==
    search_result.kind # "Pending" =>
        LET lname == to_lowercase(query)
            sp == search_path
        IN  /\ Holding(sp, lname) # {} =>
                    LET b == BucketOrder(sp)[FirstHolding(sp, lname)]
                    IN  search_result = Found(b.files[lname], b.dll_type)
            /\ (Holding(sp, lname) = {} /\ umbrella_dll_regex_is_match(lname)) =>
                    search_result = Found(EmptyPath, "Umbrella")
            /\ (Holding(sp, lname) = {} /\ ~umbrella_dll_regex_is_match(lname)) =>
                    search_result = NotFound
            /\ (/\ lname \in DOMAIN sp.current_directory_files
                /\ lname \in DOMAIN sp.system_directory_files
                /\ lname \notin DOMAIN sp.known_dll_files
                /\ lname \notin DOMAIN sp.base_directory_files) =>
                    search_result = IF sp.safe_search_enabled
                                    THEN Found(sp.system_directory_files[lname], "System")
                                    ELSE Found(sp.current_directory_files[lname], "User")

C3_Witness ==
    LET lname == to_lowercase(query)
    IN  /\ search_result.kind = "Some"
        /\ ~search_path.safe_search_enabled
        /\ lname \in DOMAIN search_path.current_directory_files
        /\ lname \in DOMAIN search_path.system_directory_files
        /\ lname \notin DOMAIN search_path.known_dll_files
        /\ lname \notin DOMAIN search_path.base_directory_files
        /\ search_result = Found(PathOf(CurrentDirectory, A_DLL), "User")

\* C5: search is case-insensitive: for every snapshot and name, search(n)
\* returns what search(lowercase(n)) returns, in both safe-search modes.
C5_SearchCaseInsensitive ==
    search_result.kind # "Pending" => search_result = search(search_path, to_lowercase(query))

C5_Witness ==
    /\ query # to_lowercase(query)
    /\ search_result.kind = "Some"
    /\ search_result.dll_type = "System"
    /\ search_path.safe_search_enabled

\* C6: a name that matches the virtual-module pattern resolves to the empty
\* path as Umbrella whatever the known-module set and the directory listings hold.
C6_UmbrellaIndependentOfFiles ==
    (search_result.kind # "Pending" /\ umbrella_dll_regex_is_match(query)) =>
        search_result = Found(EmptyPath, "Umbrella")

(***************************************************************************)
(* Spec: walk_dlls on the database main builds.  Init is the state after   *)
(* DllDatabase::new: the base directory holds the root module a.dll, the   *)
(* system directory holds B.DLL, m.dll is nowhere on disk and may be named *)
(* by KnownDLLs.                                                           *)
(***************************************************************************)
MaxImports == 2

B_DLL == <<66, 46, 68, 76, 76>>         \* "B.DLL"

WalkImportNames == { a_dll, A_DLL, b_dll, m_dll, api_dll }

\* files File::parse rejects, panics on, or panics on in an overflow-checked build only
CorruptImages ==
    << Take(Image(<<b_dll>>), ImageSectionsOffset),
       Patch(Image(<<b_dll>>), PeOffsetField, LE4(U32(0, ImageDataRva))),
       ImageAt(U32(0, 512), U32(65535, 65280), U32(0, ImageDataOffset), U32(65535, 65408)) >>

\* the contents B.DLL may have
DependencyImages ==
    << Image(<<>>), Image(<<a_dll>>), Image(<<A_DLL, m_dll>>), Image(<<b_dll, api_dll, m_dll>>) >>
        \o CorruptImages

WalkKnown == { [ok |-> TRUE, values |-> {}], [ok |-> TRUE, values |-> {[ok |-> TRUE, text |-> m_dll]}] }

WalkRoots == { a_dll, A_DLL }

\* the contents a.dll may have: an image with up to MaxImports imports, or
\* one of the corrupt files
RootChoices ==
    { [corrupt |-> 0, imports |-> l] : l \in SeqsUpTo(WalkImportNames, MaxImports) }
        \cup { [corrupt |-> c, imports |-> <<>>] : c \in 1..Len(CorruptImages) }

RootImage(r) == IF r.corrupt = 0 THEN Image(r.imports) ELSE CorruptImages[r.corrupt]

\* the answers SearchPath::new got for the files on disk
WalkEnv(disk, known) ==
    Env([ok |-> TRUE, value |-> 1], TRUE, TRUE, known,
        [d \in AllDirectories(0) |-> Listed({ p.file : p \in { q \in DOMAIN disk : q.dir = d } })], 0)

WalkDisk(root_image, dependency_image) ==
    [p \in { PathOf(BaseDirectory, a_dll), PathOf(SystemDirectory, B_DLL) } |->
        IF p.dir = BaseDirectory THEN root_image ELSE dependency_image]

\* the state after DllDatabase::new on a disk holding the two images
DatabaseWorld(root_image, dependency_image, known) ==
    /\ fs = WalkDisk(root_image, dependency_image)
    /\ parsed = [p \in DOMAIN fs |-> File_parse(fs[p], overflow_checks)]
    /\ search_path = SearchPath_new(WalkEnv(fs, known)).value
    /\ files = <<>>
    /\ search_calls = <<>>
    /\ read_calls = <<>>

WalkWorld(name, root_image, dependency_image, known) ==
    /\ DatabaseWorld(root_image, dependency_image, known)
    /\ root = name
    /\ pops = <<>>
    /\ visited = {}
    /\ queue = <<name>>
    /\ pc = "walk"

\* walk_dlls is entered with a root of roots, KnownDLLs answering one of
\* knowns, in a build with overflow checks as in builds
WalkStartIn(roots, knowns, builds) ==
    /\ RvaIdle /\ ParseIdle /\ NewIdle /\ SearchCallIdle
    /\ overflow_checks \in builds
    /\ \E name \in roots, known \in knowns, d \in 1..Len(DependencyImages), r \in RootChoices :
            WalkWorld(name, RootImage(r), DependencyImages[d], known)

WalkStart == WalkStartIn(WalkRoots, WalkKnown, BOOLEAN)

WalkInit == WalkStart /\ AltIdle /\ PrintIdle

Count(calls, str) == IF str \in DOMAIN calls THEN calls[str] ELSE 0

\* a for loop that pushes the first import not in visited only
PushFirstImport(imports, seen) ==
    IF SelectSeq(imports, LAMBDA dll : dll \notin seen) = <<>> THEN <<>>
    ELSE <<Head(SelectSeq(imports, LAMBDA dll : dll \notin seen))>>

\* the imports walk_dlls pushes: those not in visited, in order
PushImports(imports, seen) == SelectSeq(imports, LAMBDA dll : dll \notin seen)

\* the effect of one search_dll call, r being what it did
CallEffect(str, r) ==
    /\ search_calls' = IF r.searched THEN Insert(search_calls, str, Count(search_calls, str) + 1)
                       ELSE search_calls
    /\ read_calls' = IF r.read THEN Insert(read_calls, str, Count(read_calls, str) + 1)
                     ELSE read_calls
    /\ files' = r.files

\* the body of the while loop of walk_dlls on the name popped, rest being
\* the work list without it and r what search_dll did
WalkBody(str, rest, r) ==
    /\ CallEffect(str, r)
    /\ pops' = Insert(pops, str, Count(pops, str) + 1)
    /\ IF r.panic
       THEN /\ pc' = "panicked"
            /\ queue' = rest
            /\ visited' = visited
       ELSE /\ pc' = pc
            /\ queue' = rest \o PushImports(r.result.imports, visited)
            /\ visited' = visited \cup {str}

\* one iteration of the while loop of walk_dlls
WalkStep ==
    /\ pc = "walk"
    /\ queue # <<>>
    /\ WalkBody(queue[Len(queue)], SubSeq(queue, 1, Len(queue) - 1),
                search_dll(files, search_path, fs, parsed, queue[Len(queue)]))
    /\ UNCHANGED <<overflow_checks, fs, parsed, root, search_path, query, search_result,
                   rvaVars, parseVars, newVars, altVars, printVars>>

\* the loop condition fails: walk_dlls returns
WalkReturn ==
    /\ pc = "walk"
    /\ queue = <<>>
    /\ pc' = "done"
    /\ UNCHANGED <<overflow_checks, fs, parsed, files, visited, queue, search_calls, read_calls,
                   root, pops, searchVars, rvaVars, parseVars, newVars, altVars, printVars>>

Next == WalkStep \/ WalkReturn

Spec == WalkInit /\ [][Next]_vars

\* the program is sequential: an iteration that can run does run
FairSpec == Spec /\ WF_vars(Next)

\* C1: search_dll resolves a name at most once, names whose resolution fails
\* included: whatever the calls made for a name, SearchPath::search runs at
\* most once for it and its file is read and parsed at most once.
C1_AtMostOnceResolution ==
    /\ \A str \in DOMAIN search_calls : search_calls[str] <= 1
    /\ \A str \in DOMAIN read_calls : read_calls[str] <= 1

\* C4: the catalog is keyed by the lowercased name: two spellings of one
\* name share one entry, and the search path and the parser are consulted
\* for one spelling of a name only.
C4_LowercaseKeyed ==
    \A s1 \in DOMAIN files \cup DOMAIN search_calls \cup DOMAIN read_calls :
        \A s2 \in DOMAIN files \cup DOMAIN search_calls \cup DOMAIN read_calls :
            to_lowercase(s1) = to_lowercase(s2) => s1 = s2

\* the names a run that returned has processed are closed under the imports
\* of the modules that resolved
ReachableResolved ==
    \A str \in visited :
        get_dll_info(files, str).kind = "Some" =>
            \A i \in 1..Len(files[str].imports) : files[str].imports[i] \in visited

\* C9: a module that fails never aborts the walk: every name processed has an
\* entry (None for a failure, which then pushes nothing), the process never
\* aborts, and a walk that returned has processed every name reachable
\* through the modules that resolved.
C9_FailuresNeverAbort ==
    /\ pc # "panicked"
    /\ \A str \in visited : str \in DOMAIN files
    /\ pc = "done" => ReachableResolved

\* C2: walk_dlls terminates: on every import graph and whatever the outcome
\* of each resolution, the loop eventually finds the work list empty and
\* the function returns.
C2_WalkTerminates == <>(pc = "done")

(***************************************************************************)
(* CatalogSpec: any sequence of DllDatabase::search_dll calls on the        *)
(* database main builds, while other processes create and delete files.    *)
(* The snapshot of the directories is taken once; the files are read when  *)
(* a name is resolved.                                                     *)
(***************************************************************************)
MaxCalls == 2

CatalogNames == { a_dll, A_DLL, b_dll, m_dll, api_dll }

\* the path KnownDLLs gives for m.dll
KnownPath == PathOf(SystemDirectory, m_dll)

CatalogInit ==
    /\ RvaIdle /\ ParseIdle /\ NewIdle /\ SearchCallIdle
    /\ overflow_checks \in BOOLEAN
    /\ \E known \in WalkKnown, d \in 1..Len(DependencyImages) :
            DatabaseWorld(Image(<<b_dll>>), DependencyImages[d], known)
    /\ visited = {}
    /\ queue = <<>>
    /\ root = <<>>
    /\ pops = <<>>
    /\ pc = "calls"
    /\ AltIdle /\ PrintIdle

\* a call of search_dll; a panic ends the process
CallBody(str, r) ==
    /\ CallEffect(str, r)
    /\ pc' = IF r.panic THEN "panicked" ELSE pc

SearchDll ==
    /\ pc = "calls"
    /\ \E str \in CatalogNames :
        /\ Count(search_calls, str) < MaxCalls
        /\ CallBody(str, search_dll(files, search_path, fs, parsed, str))
    /\ UNCHANGED <<overflow_checks, fs, parsed, visited, queue, root, pops, search_path, query,
                   search_result, rvaVars, parseVars, newVars, altVars, printVars>>

\* another process copies a file of the disk to the path KnownDLLs gives
FileCopy ==
    /\ pc = "calls"
    /\ KnownPath \notin DOMAIN fs
    /\ \E p \in DOMAIN fs :
        /\ fs' = Insert(fs, KnownPath, fs[p])
        /\ parsed' = Insert(parsed, KnownPath, parsed[p])
    /\ UNCHANGED <<overflow_checks, files, visited, queue, pc, search_calls, read_calls,
                   root, pops, searchVars, rvaVars, parseVars, newVars, altVars, printVars>>

\* another process deletes a file
FileDelete ==
    /\ pc = "calls"
    /\ \E p \in DOMAIN fs :
        /\ fs' = [q \in DOMAIN fs \ {p} |-> fs[q]]
        /\ parsed' = [q \in DOMAIN parsed \ {p} |-> parsed[q]]
    /\ UNCHANGED <<overflow_checks, files, visited, queue, pc, search_calls, read_calls,
                   root, pops, searchVars, rvaVars, parseVars, newVars, altVars, printVars>>

CatalogNext == SearchDll \/ FileCopy \/ FileDelete

CatalogSpec == CatalogInit /\ [][CatalogNext]_vars

\* C14: the catalog only grows and its entries never change: a key that has
\* an entry, resolved or None, keeps that entry in every later state.
C14_CatalogImmutable ==
    [][\A str \in DOMAIN files : str \in DOMAIN files' /\ files'[str] = files[str]]_vars

\* C15: when the search path classifies the name popped as an Umbrella, the
\* iteration reads and parses no file, records for the name a resolved entry
\* with the empty path and no imports, and pushes nothing.
C15_UmbrellaIsLeaf ==
    [][(/\ pc = "walk" /\ queue # <<>>
        /\ search(search_path, queue[Len(queue)]).dll_type = "Umbrella")
       => (/\ read_calls' = read_calls
           /\ queue[Len(queue)] \in DOMAIN files'
           /\ files'[queue[Len(queue)]] = DllInfo(EmptyPath, "Umbrella", <<>>)
           /\ queue' = SubSeq(queue, 1, Len(queue) - 1)
           /\ pc' = "walk")]_vars

\* an Umbrella the walk has processed
C15_Witness ==
    /\ api_dll \in visited
    /\ api_dll \in DOMAIN files
    /\ files[api_dll].dll_type = "Umbrella"
    /\ Count(search_calls, api_dll) = 1

\* the names the resolved entry of str imports
ImportsOf(str) ==
    { get_dll_info(files, str).imports[i] : i \in 1..Len(get_dll_info(files, str).imports) }

\* names and what is reachable from them along the imports of resolved entries
RECURSIVE ReachableFrom(_)
ReachableFrom(names) ==
    IF UNION { ImportsOf(str) : str \in names } \subseteq names THEN names
    ELSE ReachableFrom(names \cup UNION { ImportsOf(str) : str \in names })

\* str imports itself, directly or through other modules
ImportsItself(str) == str \in ReachableFrom(ImportsOf(str))

\* C16: when the walk from a module that imports itself, directly or
\* transitively, has returned, exactly one iteration has popped that module.
C16_CycleRootVisitedOnce ==
    (pc = "done" /\ ImportsItself(root)) => Count(pops, root) = 1

(***************************************************************************)
(* EquivSpec: walk_dlls next to the walker that marks a name as seen when  *)
(* it pushes it, both on the same disk and search path, each with its own  *)
(* catalog.                                                                *)
(***************************************************************************)

\* the loop over the imports of a marking walker that compares the names
\* without regard to case
RECURSIVE AltPushIgnoringCase(_, _, _, _)
AltPushIgnoringCase(imports, i, work, seen) ==
    IF i > Len(imports) THEN [queue |-> work, seen |-> seen]
    ELSE IF to_lowercase(imports[i]) \in { to_lowercase(str) : str \in seen }
         THEN AltPushIgnoringCase(imports, i + 1, work, seen)
    ELSE AltPushIgnoringCase(imports, i + 1, Append(work, imports[i]), seen \cup {imports[i]})

\* the loop over the imports of the marking walker: a name not yet seen is
\* pushed and marked at once
RECURSIVE AltPush(_, _, _, _)
AltPush(imports, i, work, seen) ==
    IF i > Len(imports) THEN [queue |-> work, seen |-> seen]
    ELSE IF imports[i] \in seen THEN AltPush(imports, i + 1, work, seen)
    ELSE AltPush(imports, i + 1, Append(work, imports[i]), seen \cup {imports[i]})

\* the body of the loop of the marking walker on the name popped
AltBody(rest, r) ==
    /\ alt_files' = r.files
    /\ IF r.panic
       THEN /\ alt_pc' = "panicked"
            /\ alt_queue' = rest
            /\ alt_seen' = alt_seen
       ELSE /\ alt_pc' = alt_pc
            /\ alt_queue' = AltPush(r.result.imports, 1, rest, alt_seen).queue
            /\ alt_seen' = AltPush(r.result.imports, 1, rest, alt_seen).seen

AltStep ==
    /\ alt_pc = "walk"
    /\ alt_queue # <<>>
    /\ AltBody(SubSeq(alt_queue, 1, Len(alt_queue) - 1),
               search_dll(alt_files, search_path, fs, parsed, alt_queue[Len(alt_queue)]))
    /\ UNCHANGED <<overflow_checks, walkVars, searchVars, rvaVars, parseVars, newVars, printVars>>

AltReturn ==
    /\ alt_pc = "walk"
    /\ alt_queue = <<>>
    /\ alt_pc' = "done"
    /\ UNCHANGED <<overflow_checks, alt_files, alt_seen, alt_queue, walkVars, searchVars,
                   rvaVars, parseVars, newVars, printVars>>

EquivInit ==
    /\ WalkStart
    /\ alt_files = <<>>
    /\ alt_seen = {root}
    /\ alt_queue = <<root>>
    /\ alt_pc = "walk"
    /\ PrintIdle

EquivNext == WalkStep \/ WalkReturn \/ AltStep \/ AltReturn

EquivSpec == EquivInit /\ [][EquivNext]_vars

\* C17: the walker that marks names when it pushes them is equivalent to
\* walk_dlls: when both have ended, both have returned or both have aborted,
\* and when they returned their catalogs have the same keys and the same
\* entry for every key.
C17_MarkAtEnqueueEquivalent ==
    (pc \in {"done", "panicked"} /\ alt_pc \in {"done", "panicked"}) =>
        /\ pc = alt_pc
        /\ pc = "done" => (DOMAIN alt_files = DOMAIN files /\ \A str \in DOMAIN files : alt_files[str] = files[str])

\* both walkers returned, walk_dlls after popping a name more than once
C17_Witness ==
    /\ pc = "done" /\ alt_pc = "done"
    /\ \E str \in DOMAIN pops : pops[str] > 1
    /\ Cardinality(DOMAIN files) > 1
    /\ alt_files = files

(***************************************************************************)
(* PrintSpec: main after DllDatabase::new: walk_dlls, then the command:    *)
(* TreePrinter::print from the root, or print_list.  A line of the output  *)
(* is its depth and the path shown, a bare name being a path without       *)
(* directory; printed is the set of the lines written.                     *)
(***************************************************************************)
MaxDepth == 1

\* the frames the stack of the process holds before it is exhausted
StackLimit == 4

Tree(max_depth, absolute_path) ==
    [kind |-> "Tree", max_depth |-> max_depth, absolute_path |-> absolute_path]
List(absolute_path) == [kind |-> "List", max_depth |-> NoDepth, absolute_path |-> absolute_path]

Commands ==
    { Tree(d, a) : d \in {NoDepth} \cup { Depth(n) : n \in 0..MaxDepth }, a \in BOOLEAN }
        \cup { List(a) : a \in BOOLEAN }

Line(depth, path) == [depth |-> depth, dir |-> path.dir, file |-> path.file]

\* println!("{}", name)
BareName(str) == PathOf(EmptyPath.dir, str)

\* if path.is_empty() { name } else { &path }
ShownPath(info, str) == IF info.path = EmptyPath THEN BareName(str) ELSE info.path

\* the line TreePrinter::print or print_list writes for a name
PrintLine(db_files, absolute_path, str, depth) ==
    IF ~absolute_path THEN { Line(depth, BareName(str)) }
    ELSE IF get_dll_info(db_files, str).kind = "Some"
         THEN { Line(depth, ShownPath(get_dll_info(db_files, str), str)) }
    ELSE {}

\* print_list: a line for every key of the catalog
print_list(db_files, absolute_path) ==
    UNION { PrintLine(db_files, absolute_path, dll, 0) : dll \in DOMAIN db_files }

\* depth < self.max_depth.unwrap_or(u32::MAX); a depth within StackLimit is
\* below u32::MAX
DepthBelowMax(depth, max_depth) ==
    IF max_depth.kind = "None" THEN TRUE ELSE depth < max_depth.value

Frame(str, depth, index) == [name |-> str, depth |-> depth, index |-> index]

PrintInit ==
    /\ WalkStartIn({a_dll}, WalkKnown, {FALSE})
    /\ AltIdle
    /\ command \in Commands
    /\ print_stack = <<>>
    /\ printed = {}
    /\ print_pc = "idle"

\* main calls printer.print(&database, &file, 0, false)
PrintStart ==
    /\ pc = "done"
    /\ command.kind = "Tree"
    /\ print_pc = "idle"
    /\ print_stack' = <<Frame(root, 0, 1)>>
    /\ printed' = PrintLine(files, command.absolute_path, root, 0)
    /\ print_pc' = "printing"
    /\ UNCHANGED <<overflow_checks, command, walkVars, altVars, searchVars, rvaVars, parseVars, newVars>>

\* the innermost call of print has no import left: it returns
PrintReturn(top, rest) ==
    /\ print_stack' = rest
    /\ printed' = printed
    /\ print_pc' = IF rest = <<>> THEN "returned" ELSE print_pc

\* the innermost call of print goes on to its next import, callee being the
\* import when the depth allows the recursive call
PrintImport(top, rest, dll) ==
    IF ~DepthBelowMax(top.depth, command.max_depth)
    THEN /\ print_stack' = Append(rest, Frame(top.name, top.depth, top.index + 1))
         /\ printed' = printed
         /\ print_pc' = print_pc
    ELSE IF Len(print_stack) >= StackLimit
    THEN /\ print_stack' = print_stack
         /\ printed' = printed
         /\ print_pc' = "overflow"
    ELSE /\ print_stack' = Append(Append(rest, Frame(top.name, top.depth, top.index + 1)),
                                  Frame(dll, top.depth + 1, 1))
         /\ printed' = printed \cup PrintLine(files, command.absolute_path, dll, top.depth + 1)
         /\ print_pc' = print_pc

\* one step of the innermost call of TreePrinter::print
PrintFrame(top, rest, info) ==
    IF info.kind = "None" \/ top.index > Len(info.imports)
    THEN PrintReturn(top, rest)
    ELSE PrintImport(top, rest, info.imports[top.index])

PrintStep ==
    /\ print_pc = "printing"
    /\ print_stack # <<>>
    /\ PrintFrame(print_stack[Len(print_stack)], SubSeq(print_stack, 1, Len(print_stack) - 1),
                  get_dll_info(files, print_stack[Len(print_stack)].name))
    /\ UNCHANGED <<overflow_checks, command, walkVars, altVars, searchVars, rvaVars, parseVars, newVars>>

\* main calls print_list(&database, absolute_path)
PrintList ==
    /\ pc = "done"
    /\ command.kind = "List"
    /\ print_pc = "idle"
    /\ printed' = print_list(files, command.absolute_path)
    /\ print_pc' = "returned"
    /\ UNCHANGED <<overflow_checks, command, print_stack, walkVars, altVars, searchVars,
                   rvaVars, parseVars, newVars>>

PrintNext == WalkStep \/ WalkReturn \/ PrintStart \/ PrintStep \/ PrintList

PrintSpec == PrintInit /\ [][PrintNext]_vars

\* the program is sequential: a call of print that can go on does go on
FairPrintSpec == PrintSpec /\ WF_vars(PrintStep)

\* the lines of a flat list of names: every name when bare names are asked
\* for, the path of every resolved name when absolute paths are asked for
ListOf(names, absolute_path) ==
    IF ~absolute_path THEN { Line(0, BareName(dll)) : dll \in names }
    ELSE { Line(0, ShownPath(files[dll], dll)) :
             dll \in { str \in names \cap DOMAIN files : files[str].kind = "Some" } }

\* C18: when walk_dlls has returned on a fresh catalog, the keys of the
\* catalog are the visited set and are exactly the names, as spelled,
\* reachable from the root along the imports of the resolved modules; the
\* flat list printed afterwards is that closure (with absolute paths, the
\* paths of its resolved members).
C18_ClosureComplete ==
    pc = "done" =>
        /\ DOMAIN files = visited
        /\ visited = ReachableFrom({root})
        /\ (command.kind = "List" /\ print_pc = "returned") =>
               printed = ListOf(ReachableFrom({root}), command.absolute_path)

\* a list was printed for a closure of three names or more, one of them
\* unresolved and one of them popped more than once
C18_Witness ==
    /\ pc = "done" /\ command.kind = "List" /\ print_pc = "returned"
    /\ Cardinality(visited) >= 3
    /\ \E str \in DOMAIN files : get_dll_info(files, str).kind = "None"
    /\ \E str \in DOMAIN pops : pops[str] > 1
    /\ printed # {}

\* with a maximum depth no line is printed deeper than it
TreeLinesWithinMaxDepth ==
    command.max_depth.kind = "Some" => \A l \in printed : l.depth <= command.max_depth.value

\* C19: TreePrinter::print, once called on the catalog walk_dlls produced,
\* returns, whether or not the imports form a cycle and whether or not a
\* maximum depth is given.
C19_TreePrintTerminates == (print_pc = "printing") ~> (print_pc = "returned")

====
